---- MODULE Spec2Model ----
(***************************************************************************)
(* Model of datamerge.py: de-duplication on key columns, the pandas merge  *)
(* with validation and the _merge indicator, conflict resolution over      *)
(* suffixed columns, and the audit counts, composed as                     *)
(* quick_merge_with_audit composes them.                                   *)
(*                                                                         *)
(* A table (DataFrame) is [cols |-> sequence of column names,              *)
(* rows |-> sequence of rows], a row being a function from the column      *)
(* names to cell values.  Cell values are strings; NaN is the missing      *)
(* value.                                                                  *)
(***************************************************************************)
EXTENDS Integers, Sequences, FiniteSets, TLC

\* ------------------------------------------------------------------ bounds
\* rows of each input table of the pipeline
MaxRows == 2
\* rows of the table handed to the resolver / auditor called as a library
MaxDfRows == 2
\* rows of the table handed to drop_dupes_on called as a library
MaxDupRows == 3

\* ------------------------------------------------------------------ values
NaN == "NaN"
LeftKeyVals == {"k1", "k2"}
RightKeyVals == {"k2", "k3"}
LeftCellVals == {NaN, "a"}
RightCellVals == {NaN, "b"}
\* Python's order of the key strings; NaN sorts last in a join's key order.
SortOrder == <<"a", "b", "k1", "k2", "k3">>
Rank(v) == IF v = NaN THEN Len(SortOrder) + 1
           ELSE CHOOSE i \in 1..Len(SortOrder) : SortOrder[i] = v

INNER == "inner"
LEFT == "left"
RIGHT == "right"
OUTER == "outer"
JoinHow == {INNER, LEFT, RIGHT, OUTER}

None == "None"
DefaultSuffixes == <<"_left", "_right">>
MERGE == "_merge"
BOTH == "both"
LEFT_ONLY == "left_only"
RIGHT_ONLY == "right_only"

\* ------------------------------------------------------------------ helpers
Range(s) == {s[i] : i \in 1..Len(s)}

RECURSIVE Concat(_)
Concat(ss) == IF ss = <<>> THEN <<>> ELSE Head(ss) \o Concat(Tail(ss))

\* sequences over S of length 0..n
SeqsUpTo(S, n) == UNION {[1..k -> S] : k \in 0..n}

\* the table standing for "no table" (every real table has a column)
NoTable == [cols |-> <<>>, rows |-> <<>>]
NoErr == [type |-> "none", names |-> <<>>, names2 |-> <<>>, strategy |-> ""]
KeyError(a, b) == [type |-> "KeyError", names |-> a, names2 |-> b, strategy |-> ""]
MergeError == [type |-> "MergeError", names |-> <<>>, names2 |-> <<>>, strategy |-> ""]
ValueError(base, strategy) ==
    [type |-> "ValueError", names |-> <<base>>, names2 |-> <<>>, strategy |-> strategy]
NoCounts == [left_only |-> -1, right_only |-> -1, both |-> -1, total_rows |-> -1]

Columns(df) == Range(df.cols)
\* the key tuple of a row
KeyOf(row, keys) == [i \in 1..Len(keys) |-> row[keys[i]]]
Keys(df, keys) == {KeyOf(df.rows[i], keys) : i \in 1..Len(df.rows)}
\* [k for k in keys if k not in df.columns]
Missing(df, keys) == SelectSeq(keys, LAMBDA k : k \notin Columns(df))
\* the rows of a table at the given positions, in that order
Take(rows, idx) == [i \in 1..Len(idx) |-> rows[idx[i]]]
\* the members of a set of positions, ascending
RECURSIVE Ascending(_)
Ascending(S) ==
    IF S = {} THEN <<>>
    ELSE LET m == CHOOSE x \in S : \A y \in S : x <= y
         IN  <<m>> \o Ascending(S \ {m})

\* ------------------------------------------------------------------ drop_dupes_on
\* DataFrame.drop_duplicates(subset=keys, keep=keep): the rows with no later
\* (keep="last") or no earlier (keep="first") row of the same key, in order.
\* Missing values compare equal to each other here, as in pandas.
\* keep="last" taken for keep="first"
KeepsLast_AsFirst(df, keys, i) ==
    \A j \in 1..(i - 1) : KeyOf(df.rows[j], keys) # KeyOf(df.rows[i], keys)
KeepsLast(df, keys, i) ==
    \A j \in (i + 1)..Len(df.rows) : KeyOf(df.rows[j], keys) # KeyOf(df.rows[i], keys)
KeepsFirst(df, keys, i) ==
    \A j \in 1..(i - 1) : KeyOf(df.rows[j], keys) # KeyOf(df.rows[i], keys)
\* subset=keys forgotten: whole rows are compared
drop_duplicates_NoSubset(df, keys, keep) ==
    LET kept == Ascending({i \in 1..Len(df.rows) :
                              \A j \in (i + 1)..Len(df.rows) : df.rows[j] # df.rows[i]})
    IN  [cols |-> df.cols, rows |-> Take(df.rows, kept)]
drop_duplicates(df, keys, keep) ==
    LET kept == Ascending({i \in 1..Len(df.rows) :
                              IF keep = "last" THEN KeepsLast(df, keys, i)
                              ELSE KeepsFirst(df, keys, i)})
    IN  [cols |-> df.cols, rows |-> Take(df.rows, kept)]

\* [ok, df, err]: the returned table, or the raised error
drop_dupes_on(df, keys, keep) ==
    LET missing == Missing(df, keys)
    IN  IF missing # <<>>
        THEN [ok |-> FALSE, df |-> NoTable, err |-> KeyError(missing, <<>>)]
        ELSE [ok |-> TRUE, df |-> drop_duplicates(df, keys, keep), err |-> NoErr]

\* ------------------------------------------------------------------ merge_frames
\* pandas.merge(left, right, how, on, suffixes, validate, indicator)
Overlap(left, right, on) == (Columns(left) \cap Columns(right)) \ Range(on)
LeftName(c, left, right, on, suffixes) ==
    IF c \in Overlap(left, right, on) THEN c \o suffixes[1] ELSE c
RightName(c, left, right, on, suffixes) ==
    IF c \in Overlap(left, right, on) THEN c \o suffixes[2] ELSE c
\* the left columns, then the right columns that are no join key, then _merge
MergedCols(left, right, on, suffixes, indicator) ==
    LET rcols == SelectSeq(right.cols, LAMBDA c : c \notin Range(on))
    IN  [i \in 1..Len(left.cols) |-> LeftName(left.cols[i], left, right, on, suffixes)]
        \o [i \in 1..Len(rcols) |-> RightName(rcols[i], left, right, on, suffixes)]
        \o (IF indicator THEN <<MERGE>> ELSE <<>>)

\* the two one-sided tags exchanged
Indicator_Swapped(li, ri) ==
    IF li # 0 /\ ri # 0 THEN BOTH ELSE IF ri = 0 THEN RIGHT_ONLY ELSE LEFT_ONLY
Indicator(li, ri) ==
    IF li # 0 /\ ri # 0 THEN BOTH ELSE IF ri = 0 THEN LEFT_ONLY ELSE RIGHT_ONLY

\* the output row of left row li and right row ri (0: no row of that side)
MergedRow(left, right, on, suffixes, indicator, li, ri) ==
    LET lpart == [n \in {LeftName(c, left, right, on, suffixes) : c \in Columns(left)} |->
                    LET c == CHOOSE c \in Columns(left) :
                                 LeftName(c, left, right, on, suffixes) = n
                    IN  IF li # 0 THEN left.rows[li][c]
                        ELSE IF c \in Range(on) THEN right.rows[ri][c] ELSE NaN]
        rpart == [n \in {RightName(c, left, right, on, suffixes) :
                            c \in Columns(right) \ Range(on)} |->
                    LET c == CHOOSE c \in Columns(right) \ Range(on) :
                                 RightName(c, left, right, on, suffixes) = n
                    IN  IF ri # 0 THEN right.rows[ri][c] ELSE NaN]
        ipart == IF indicator THEN MERGE :> Indicator(li, ri) ELSE <<>>
    IN  IF indicator THEN lpart @@ rpart @@ ipart ELSE lpart @@ rpart

\* positions of the rows of df whose key tuple is k, ascending
Matches(df, on, k) == Ascending({j \in 1..Len(df.rows) : KeyOf(df.rows[j], on) = k})

\* key tuples in the join's sort order: lexicographic, NaN last
KeyLess(a, b) ==
    \E i \in 1..Len(a) : /\ Rank(a[i]) < Rank(b[i])
                         /\ \A j \in 1..(i - 1) : a[j] = b[j]
RECURSIVE SortKeys(_)
SortKeys(S) ==
    IF S = {} THEN <<>>
    ELSE LET m == CHOOSE x \in S : \A y \in S \ {x} : KeyLess(x, y)
         IN  <<m>> \o SortKeys(S \ {m})

\* The join's row pairs <<li, ri>>.
\* left: the left rows in order, each with its matching right rows in order
LeftJoin(left, right, on) ==
    Concat([i \in 1..Len(left.rows) |->
              LET m == Matches(right, on, KeyOf(left.rows[i], on))
              IN  IF m = <<>> THEN << <<i, 0>> >>
                  ELSE [j \in 1..Len(m) |-> <<i, m[j]>>]])
\* right: the mirror image
RightJoin(left, right, on) ==
    Concat([j \in 1..Len(right.rows) |->
              LET m == Matches(left, on, KeyOf(right.rows[j], on))
              IN  IF m = <<>> THEN << <<0, j>> >>
                  ELSE [i \in 1..Len(m) |-> <<m[i], j>>]])
\* inner: the order of the left keys, matches only
InnerJoin(left, right, on) ==
    Concat([i \in 1..Len(left.rows) |->
              LET m == Matches(right, on, KeyOf(left.rows[i], on))
              IN  [j \in 1..Len(m) |-> <<i, m[j]>>]])
\* outer: the keys of both sides sorted; per key the left rows times the
\* right rows, or the rows of the one side that has the key
OuterJoin(left, right, on) ==
    LET ks == SortKeys(Keys(left, on) \cup Keys(right, on))
    IN  Concat([n \in 1..Len(ks) |->
                  LET lm == Matches(left, on, ks[n])
                      rm == Matches(right, on, ks[n])
                  IN  IF rm = <<>> THEN [i \in 1..Len(lm) |-> <<lm[i], 0>>]
                      ELSE IF lm = <<>> THEN [j \in 1..Len(rm) |-> <<0, rm[j]>>]
                      ELSE Concat([i \in 1..Len(lm) |->
                                     [j \in 1..Len(rm) |-> <<lm[i], rm[j]>>]])])
JoinPairs(left, right, on, how) ==
    IF how = INNER THEN InnerJoin(left, right, on)
    ELSE IF how = LEFT THEN LeftJoin(left, right, on)
    ELSE IF how = RIGHT THEN RightJoin(left, right, on)
    ELSE OuterJoin(left, right, on)

\* validate: the key tuples of a side are unique
IsUnique(df, on) ==
    \A i, j \in 1..Len(df.rows) :
        i # j => KeyOf(df.rows[i], on) # KeyOf(df.rows[j], on)
\* one_to_one checks the left keys only
ValidateOk_LeftOnly(left, right, on, validate) ==
    IF validate \in {"one_to_one", "1:1", "one_to_many", "1:m"} THEN IsUnique(left, on)
    ELSE IF validate \in {"many_to_one", "m:1"} THEN IsUnique(right, on)
    ELSE TRUE
ValidateOk(left, right, on, validate) ==
    IF validate \in {"one_to_one", "1:1"} THEN IsUnique(left, on) /\ IsUnique(right, on)
    ELSE IF validate \in {"one_to_many", "1:m"} THEN IsUnique(left, on)
    ELSE IF validate \in {"many_to_one", "m:1"} THEN IsUnique(right, on)
    ELSE TRUE
ValidateTokens == {None, "one_to_one", "1:1", "one_to_many", "1:m",
                   "many_to_one", "m:1", "many_to_many", "m:m"}

\* pandas.merge: [ok, df, err].  (The column names of the inputs modelled
\* are such that suffixing never makes two columns of the result collide.)
pd_merge(left, right, how, on, suffixes, validate, indicator) ==
    IF validate \notin ValidateTokens
    THEN [ok |-> FALSE, df |-> NoTable, err |-> ValueError("validate", validate)]
    ELSE IF ~ValidateOk(left, right, on, validate)
    THEN [ok |-> FALSE, df |-> NoTable, err |-> MergeError]
    ELSE IF indicator /\ MERGE \in Columns(left) \cup Columns(right)
    THEN [ok |-> FALSE, df |-> NoTable, err |-> ValueError(MERGE, "")]
    ELSE LET pairs == JoinPairs(left, right, on, how)
         IN  [ok |-> TRUE,
              df |-> [cols |-> MergedCols(left, right, on, suffixes, indicator),
                      rows |-> [n \in 1..Len(pairs) |->
                                  MergedRow(left, right, on, suffixes, indicator,
                                            pairs[n][1], pairs[n][2])]],
              err |-> NoErr]

merge_frames(left, right, on, how, validate, suffixes, indicator) ==
    LET missing_left == Missing(left, on)
        missing_right == Missing(right, on)
    IN  IF missing_left # <<>> \/ missing_right # <<>>
        THEN [ok |-> FALSE, df |-> NoTable,
              err |-> KeyError(missing_left, missing_right)]
        ELSE pd_merge(left, right, how, on, suffixes, validate, indicator)

\* ------------------------------------------------------------------ resolve_conflicts
\* df[c] = vals: rewrite column c in place, or append it as the last column
SetColumn(df, c, vals) ==
    [cols |-> IF c \in Columns(df) THEN df.cols ELSE Append(df.cols, c),
     rows |-> [i \in 1..Len(df.rows) |->
                 [n \in Columns(df) \cup {c} |->
                    IF n = c THEN vals[i] ELSE df.rows[i][n]]]]
Column(df, c) == [i \in 1..Len(df.rows) |-> df.rows[i][c]]
\* the right value preferred
Coalesce_RightFirst(lv, rv) == [i \in 1..Len(lv) |-> IF rv[i] # NaN THEN rv[i] ELSE lv[i]]
\* left.where(left.notna(), right)
Coalesce(lv, rv) == [i \in 1..Len(lv) |-> IF lv[i] # NaN THEN lv[i] ELSE rv[i]]

\* One turn of the loop over base_to_strategy.items(), on the state
\* [df, err]: the table as mutated so far, and the error raised (none yet).
ResolveStep(st, entry, suffixes) ==
    LET df == st.df
        left_col == entry.base \o suffixes[1]
        right_col == entry.base \o suffixes[2]
        out_col == entry.base
    IN  IF st.err # NoErr THEN st
        ELSE IF left_col \notin Columns(df) \/ right_col \notin Columns(df) THEN st
        ELSE IF entry.strategy = "left"
        THEN [st EXCEPT !.df = SetColumn(df, out_col, Column(df, left_col))]
        ELSE IF entry.strategy = "right"
        THEN [st EXCEPT !.df = SetColumn(df, out_col, Column(df, right_col))]
        ELSE IF entry.strategy = "coalesce"
        THEN [st EXCEPT !.df = SetColumn(df, out_col,
                                   Coalesce(Column(df, left_col), Column(df, right_col)))]
        ELSE [st EXCEPT !.err = ValueError(entry.base, entry.strategy)]

RECURSIVE ResolveLoop(_, _, _)
ResolveLoop(st, entries, suffixes) ==
    IF entries = <<>> THEN st
    ELSE ResolveLoop(ResolveStep(st, Head(entries), suffixes), Tail(entries), suffixes)

\* [df, err]: df is the caller's table after the call (it is mutated in
\* place, also when the call raises); err the error raised, if any.
\* base_to_strategy is the dict as the sequence of its items.
resolve_conflicts(df, base_to_strategy, suffixes) ==
    ResolveLoop([df |-> df, err |-> NoErr], base_to_strategy, suffixes)

\* ------------------------------------------------------------------ audit_counts
\* value_counts(dropna=False).get(tag, 0)
CountOf(df, tag) == Cardinality({i \in 1..Len(df.rows) : df.rows[i][MERGE] = tag})
\* total_rows taken from Series.count(), which skips missing values
audit_counts_CountNonNull(df) ==
    IF MERGE \notin Columns(df)
    THEN [ok |-> FALSE, counts |-> NoCounts, err |-> KeyError(<<MERGE>>, <<>>)]
    ELSE [ok |-> TRUE,
          counts |-> [left_only |-> CountOf(df, LEFT_ONLY),
                      right_only |-> CountOf(df, RIGHT_ONLY),
                      both |-> CountOf(df, BOTH),
                      total_rows |-> Cardinality({i \in 1..Len(df.rows) :
                                                    df.rows[i][MERGE] # NaN})],
          err |-> NoErr]
\* [ok, counts, err]
audit_counts(df) ==
    IF MERGE \notin Columns(df)
    THEN [ok |-> FALSE, counts |-> NoCounts, err |-> KeyError(<<MERGE>>, <<>>)]
    ELSE [ok |-> TRUE,
          counts |-> [left_only |-> CountOf(df, LEFT_ONLY),
                      right_only |-> CountOf(df, RIGHT_ONLY),
                      both |-> CountOf(df, BOTH),
                      total_rows |-> Len(df.rows)],
          err |-> NoErr]

\* ------------------------------------------------------------------ state
VARIABLES
    left, right,          \* the two tables of quick_merge_with_audit (locals)
    left0, right0,        \* the tables as read_csv returned them
    on, how, validate,    \* arguments of the call
    dedupe_left_keys, dedupe_right_keys, keep,
    suffixes, conflicts,
    merged,               \* the merged table (NoTable: none yet)
    df0,                  \* the table handed to the last library call
    counts,               \* the audit summary (NoCounts: none yet)
    err,                  \* the error raised (NoErr: none)
    pc

vars == <<left, right, left0, right0, on, how, validate, dedupe_left_keys,
          dedupe_right_keys, keep, suffixes, conflicts, merged, df0, counts,
          err, pc>>

\* ------------------------------------------------------------------ inputs
ID == "id"
CITY == "city"
ZIP == "zip"
\* normalized tables as read_csv returns them; the second schema lacks the key
Schemas == {<<ID, CITY>>, <<CITY>>}
CellDomain(c, keyvals, cellvals) == IF c = ID THEN keyvals ELSE cellvals
RowsOf(sch, keyvals, cellvals) ==
    {r \in [Range(sch) -> keyvals \cup cellvals] :
        \A c \in Range(sch) : r[c] \in CellDomain(c, keyvals, cellvals)}
Tables(schemas, keyvals, cellvals, n) ==
    UNION {{[cols |-> sch, rows |-> rs] :
               rs \in SeqsUpTo(RowsOf(sch, keyvals, cellvals), n)} : sch \in schemas}
LeftTables == Tables(Schemas, LeftKeyVals, LeftCellVals, MaxRows)
RightTables == Tables(Schemas, RightKeyVals, RightCellVals, MaxRows)
Entry(b, s) == [base |-> b, strategy |-> s]

\* ------------------------------------------------------------------ quick_merge_with_audit
\* The state after the two read_csv calls, for every choice of arguments.
Init ==
    /\ left \in LeftTables /\ right \in RightTables
    /\ left0 = left /\ right0 = right
    /\ on = <<ID>>
    /\ how \in JoinHow
    /\ validate \in {None, "one_to_one"}
    /\ dedupe_left_keys \in {<<>>, <<ID>>}
    /\ dedupe_right_keys \in {<<>>, <<ID>>}
    /\ keep = "last"
    /\ suffixes = DefaultSuffixes
    /\ conflicts \in {<<>>, <<Entry(CITY, "coalesce")>>}
    /\ merged = NoTable /\ df0 = NoTable
    /\ counts = NoCounts /\ err = NoErr
    /\ pc = "loaded"

Args == <<on, how, validate, dedupe_left_keys, dedupe_right_keys, keep,
          suffixes, conflicts>>

\* if dedupe_left_keys: left = drop_dupes_on(left, dedupe_left_keys, keep="last")
DedupeLeft ==
    /\ pc = "loaded"
    /\ LET r == drop_dupes_on(left, dedupe_left_keys, keep)
       IN  IF dedupe_left_keys = <<>>
           THEN pc' = "deduped_left" /\ UNCHANGED <<left, err>>
           ELSE IF r.ok
           THEN pc' = "deduped_left" /\ left' = r.df /\ UNCHANGED err
           ELSE pc' = "failed" /\ err' = r.err /\ UNCHANGED left
    /\ UNCHANGED <<right, left0, right0, Args, merged, df0, counts>>

\* if dedupe_right_keys: right = drop_dupes_on(right, dedupe_right_keys, keep="last")
DedupeRight ==
    /\ pc = "deduped_left"
    /\ LET r == drop_dupes_on(right, dedupe_right_keys, keep)
       IN  IF dedupe_right_keys = <<>>
           THEN pc' = "deduped_right" /\ UNCHANGED <<right, err>>
           ELSE IF r.ok
           THEN pc' = "deduped_right" /\ right' = r.df /\ UNCHANGED err
           ELSE pc' = "failed" /\ err' = r.err /\ UNCHANGED right
    /\ UNCHANGED <<left, left0, right0, Args, merged, df0, counts>>

\* merged = merge_frames(left, right, on=on, how=how, validate=validate,
\*                       suffixes=suffixes, indicator=True)
Merge ==
    /\ pc = "deduped_right"
    /\ LET r == merge_frames(left, right, on, how, validate, suffixes, TRUE)
       IN  IF r.ok
           THEN pc' = "merged" /\ merged' = r.df /\ UNCHANGED err
           ELSE pc' = "failed" /\ err' = r.err /\ UNCHANGED merged
    /\ UNCHANGED <<left, right, left0, right0, Args, df0, counts>>

\* if conflicts: merged = resolve_conflicts(merged, conflicts, suffixes=suffixes)
Resolve ==
    /\ pc = "merged"
    /\ LET r == resolve_conflicts(merged, conflicts, suffixes)
       IN  IF conflicts = <<>>
           THEN pc' = "resolved" /\ UNCHANGED <<merged, df0, err>>
           ELSE /\ df0' = merged
                /\ merged' = r.df
                /\ err' = r.err
                /\ pc' = IF r.err = NoErr THEN "resolved" ELSE "failed"
    /\ UNCHANGED <<left, right, left0, right0, Args, counts>>

\* counts = audit_counts(merged); return merged, counts
Audit ==
    /\ pc = "resolved"
    /\ LET r == audit_counts(merged)
       IN  IF r.ok
           THEN pc' = "done" /\ counts' = r.counts /\ UNCHANGED err
           ELSE pc' = "failed" /\ err' = r.err /\ UNCHANGED counts
    /\ UNCHANGED <<left, right, left0, right0, Args, merged, df0>>

Next == DedupeLeft \/ DedupeRight \/ Merge \/ Resolve \/ Audit

Spec == Init /\ [][Next]_vars

\* ------------------------------------------------------------------ library calls
\* resolve_conflicts, merge_frames and audit_counts called on a merged table.
\* The tables are those merge_frames(..., suffixes, indicator=True) returns
\* for two inputs with the key column and one or two overlapping columns,
\* which it suffixes: a left_only row has key k1 and no right-hand values,
\* a right_only row key k3 and no left-hand values, a matched row key k2.
SuffixChoices == {DefaultSuffixes, <<"", "_right">>}
Bases == {CITY, ZIP}
Strategies == {"left", "right", "coalesce", "middle"}
\* one overlapping column (city), or two (city and zip, default suffixes)
MergedSchemas(suf) ==
    {<<ID, CITY \o suf[1], CITY \o suf[2], MERGE>>}
    \cup (IF suf = DefaultSuffixes
          THEN {<<ID, CITY \o suf[1], CITY \o suf[2],
                  ZIP \o suf[1], ZIP \o suf[2], MERGE>>}
          ELSE {})
LeftSourceCols(sch, suf) == Range(sch) \cap {CITY \o suf[1], ZIP \o suf[1]}
RightSourceCols(sch, suf) == Range(sch) \cap {CITY \o suf[2], ZIP \o suf[2]}
MergedRowsTagged(sch, suf, tag, key) ==
    {(ID :> key) @@ (MERGE :> tag) @@ l @@ r :
        l \in [LeftSourceCols(sch, suf) ->
                  IF tag = RIGHT_ONLY THEN {NaN} ELSE LeftCellVals],
        r \in [RightSourceCols(sch, suf) ->
                  IF tag = LEFT_ONLY THEN {NaN} ELSE RightCellVals]}
MergedRows(sch, suf) ==
    MergedRowsTagged(sch, suf, BOTH, "k2")
    \cup MergedRowsTagged(sch, suf, LEFT_ONLY, "k1")
    \cup MergedRowsTagged(sch, suf, RIGHT_ONLY, "k3")
MergedTables(suf) ==
    UNION {{[cols |-> sch, rows |-> rs] : rs \in SeqsUpTo(MergedRows(sch, suf), MaxDfRows)} :
           sch \in MergedSchemas(suf)}
\* the dicts over Bases, as their item sequences (in either insertion order)
ConflictSpecs ==
    {<<>>} \cup {<<Entry(b, st)>> : b \in Bases, st \in Strategies}
    \cup {<<Entry(b1, s1), Entry(b2, s2)>> :
             <<b1, s1, b2, s2>> \in {q \in Bases \X Strategies \X Bases \X Strategies :
                                       q[1] # q[3]}}
\* a further table to join: the key column alone, one row
KeyOnlyTables == {[cols |-> <<ID>>, rows |-> <<[c \in {ID} |-> k]>>] : k \in RightKeyVals}

InitLib ==
    /\ suffixes \in SuffixChoices
    /\ merged \in MergedTables(suffixes)
    /\ df0 = merged
    /\ left = NoTable /\ right = NoTable /\ left0 = NoTable /\ right0 = NoTable
    /\ on = <<ID>> /\ how = OUTER /\ validate = None
    /\ dedupe_left_keys = <<>> /\ dedupe_right_keys = <<>> /\ keep = "last"
    /\ conflicts = <<>>
    /\ counts = NoCounts /\ err = NoErr
    /\ pc = "lib"

\* resolve_conflicts(merged, spec, suffixes): merged is mutated in place
LibResolve ==
    /\ pc = "lib"
    /\ \E spec \in ConflictSpecs :
          LET r == resolve_conflicts(merged, spec, suffixes)
          IN  /\ conflicts' = spec
              /\ df0' = merged
              /\ merged' = r.df
              /\ err' = r.err
              /\ pc' = IF r.err = NoErr THEN "lib_resolved" ELSE "lib_failed"
    /\ UNCHANGED <<left, right, left0, right0, on, how, validate,
                   dedupe_left_keys, dedupe_right_keys, keep, suffixes, counts>>

\* merged = merge_frames(merged, other, on, how, indicator=False): the merged
\* table joined with a further table, its _merge column carried along
LibMerge ==
    /\ pc = "lib"
    /\ \E other \in KeyOnlyTables, h \in JoinHow :
          LET r == merge_frames(merged, other, on, h, None, suffixes, FALSE)
          IN  /\ right' = other
              /\ how' = h
              /\ df0' = merged
              /\ merged' = r.df
              /\ err' = r.err
              /\ pc' = IF r.ok THEN "lib_merged" ELSE "lib_failed"
    /\ UNCHANGED <<left, left0, right0, on, validate, dedupe_left_keys,
                   dedupe_right_keys, keep, suffixes, conflicts, counts>>

\* counts = audit_counts(merged)
LibAudit ==
    /\ pc \in {"lib", "lib_resolved", "lib_merged"}
    /\ LET r == audit_counts(merged)
       IN  /\ counts' = r.counts
           /\ err' = r.err
           /\ pc' = IF r.ok THEN "lib_audited" ELSE "lib_failed"
    /\ UNCHANGED <<left, right, left0, right0, Args, merged, df0>>

NextLib == LibResolve \/ LibMerge \/ LibAudit

SpecLib == InitLib /\ [][NextLib]_vars

\* drop_dupes_on called on a table, and again on its result
DupSchemas == {<<ID, CITY>>}
DupKeys == {<<ID>>, <<CITY>>, <<ID, CITY>>, <<CITY, ID>>, <<ZIP>>, <<ID, ZIP>>}
InitDedupe ==
    /\ left \in Tables(DupSchemas, LeftKeyVals, LeftCellVals, MaxDupRows)
    /\ left0 = left /\ df0 = left
    /\ dedupe_left_keys \in DupKeys
    /\ keep \in {"first", "last"}
    /\ right = NoTable /\ right0 = NoTable /\ merged = NoTable
    /\ on = <<ID>> /\ how = OUTER /\ validate = None
    /\ dedupe_right_keys = <<>> /\ suffixes = DefaultSuffixes /\ conflicts = <<>>
    /\ counts = NoCounts /\ err = NoErr
    /\ pc = "dedupe"

\* left = drop_dupes_on(left, dedupe_left_keys, keep)
LibDropDupes ==
    /\ pc \in {"dedupe", "deduped_once"}
    /\ LET r == drop_dupes_on(left, dedupe_left_keys, keep)
       IN  IF r.ok
           THEN /\ df0' = left
                /\ left' = r.df
                /\ pc' = IF pc = "dedupe" THEN "deduped_once" ELSE "deduped_twice"
                /\ UNCHANGED err
           ELSE pc' = "dedupe_failed" /\ err' = r.err /\ UNCHANGED <<left, df0>>
    /\ UNCHANGED <<right, left0, right0, on, how, validate, dedupe_left_keys,
                   dedupe_right_keys, keep, suffixes, conflicts, merged, counts>>

NextDedupe == LibDropDupes

SpecDedupe == InitDedupe /\ [][NextDedupe]_vars

\* ------------------------------------------------------------------ properties
Tags == {BOTH, LEFT_ONLY, RIGHT_ONLY}
AfterMerge == pc \in {"merged", "resolved", "done"}
MergeCalled == pc \notin {"loaded", "deduped_left", "deduped_right"}
HasKeys == Missing(left, on) = <<>> /\ Missing(right, on) = <<>>
LastWithKey(df, keys, k) ==
    LET m == Matches(df, keys, k) IN df.rows[m[Len(m)]]

\* C4: drop_dupes_on(T, K, keep="last") returns exactly one row per distinct
\* key tuple of T, the last row of T with that key, introduces no key, and
\* a second application returns the same table.
C4_DedupeLastIdempotent ==
    (pc \in {"deduped_once", "deduped_twice"} /\ keep = "last") =>
        /\ Keys(left, dedupe_left_keys) = Keys(left0, dedupe_left_keys)
        /\ IsUnique(left, dedupe_left_keys)
        /\ \A i \in 1..Len(left.rows) :
              left.rows[i] = LastWithKey(left0, dedupe_left_keys,
                                         KeyOf(left.rows[i], dedupe_left_keys))
        /\ left.cols = left0.cols
        /\ (pc = "deduped_twice" => left = df0)
C4_Witness ==
    /\ pc = "deduped_twice" /\ keep = "last"
    /\ Len(left0.rows) = 3 /\ Len(left.rows) = 2
    /\ left0.rows[1] # left0.rows[3]
    /\ KeyOf(left0.rows[1], dedupe_left_keys) = KeyOf(left0.rows[3], dedupe_left_keys)

\* C5: in an outer merge with the indicator every row's tag is both,
\* left_only or right_only, according to the sides in which its key tuple
\* occurs; every key tuple of either input is in the output; the audit
\* counts are those of the keys.
C5_OuterProvenance ==
    (AfterMerge /\ how = OUTER) =>
        LET LK == Keys(left, on)
            RK == Keys(right, on)
            L == 1..Len(left.rows)
            R == 1..Len(right.rows)
        IN  /\ \A i \in 1..Len(merged.rows) :
                  LET r == merged.rows[i]
                      k == KeyOf(r, on)
                  IN  /\ r[MERGE] \in Tags
                      /\ (r[MERGE] = BOTH) = (k \in LK /\ k \in RK)
                      /\ (r[MERGE] = LEFT_ONLY) = (k \in LK /\ k \notin RK)
                      /\ (r[MERGE] = RIGHT_ONLY) = (k \notin LK /\ k \in RK)
            /\ LK \cup RK \subseteq Keys(merged, on)
            /\ (pc = "done" =>
                  /\ counts.total_rows = Len(merged.rows)
                  /\ counts.left_only =
                        Cardinality({i \in L : KeyOf(left.rows[i], on) \notin RK})
                  /\ counts.right_only =
                        Cardinality({j \in R : KeyOf(right.rows[j], on) \notin LK})
                  /\ counts.both =
                        Cardinality({p \in L \X R : KeyOf(left.rows[p[1]], on)
                                                     = KeyOf(right.rows[p[2]], on)}))
C5_Witness ==
    /\ pc = "done" /\ how = OUTER
    /\ Keys(left, on) = {<<"k1">>, <<"k2">>}
    /\ Keys(right, on) = {<<"k2">>, <<"k3">>}
    /\ counts = [left_only |-> 1, right_only |-> 1, both |-> 1, total_rows |-> 3]

\* C8: with validate one_to_one and a key tuple repeated in the left or in
\* the right table handed to merge_frames, the merge raises the validation
\* error; no merged table and no audit summary exist.
C8_OneToOneViolationFails ==
    (MergeCalled /\ HasKeys /\ validate = "one_to_one"
       /\ (~IsUnique(left, on) \/ ~IsUnique(right, on))) =>
        /\ pc = "failed"
        /\ err = MergeError
        /\ merged = NoTable
        /\ counts = NoCounts
C8_Witness ==
    /\ pc = "failed" /\ err = MergeError /\ validate = "one_to_one"
    /\ IsUnique(left, on) /\ ~IsUnique(right, on)

\* C10: with both sides de-duplicated on the join keys, the one_to_one
\* validation never fails, whatever the join type, and the merged table
\* holds at most one row per key tuple.
C10_DedupedMergeIsOneToOne ==
    (MergeCalled /\ HasKeys /\ validate = "one_to_one"
       /\ dedupe_left_keys = on /\ dedupe_right_keys = on) =>
        /\ AfterMerge
        /\ err = NoErr
        /\ IsUnique(merged, on)
C10_Witness ==
    /\ pc = "done" /\ validate = "one_to_one"
    /\ dedupe_left_keys = on /\ dedupe_right_keys = on
    /\ ~IsUnique(left0, on) /\ ~IsUnique(right0, on)
    /\ Len(merged.rows) >= 2

\* the items of the dict given to the last resolve_conflicts call whose two
\* suffixed columns were in the table
Resolvable(e) ==
    /\ (e.base \o suffixes[1]) \in Columns(df0)
    /\ (e.base \o suffixes[2]) \in Columns(df0)
ValidStrategies == {"left", "right", "coalesce"}
SourceCols == {e.base \o suffixes[1] : e \in Range(conflicts)}
                 \cup {e.base \o suffixes[2] : e \in Range(conflicts)}
OutCols == {e.base : e \in {x \in Range(conflicts) : Resolvable(x)}}

\* C1 as stated: whatever the _merge column holds and whatever calls made
\* the table, left_only + right_only + both = total_rows.
C1_SumIsTotal ==
    pc = "lib_audited" =>
        counts.left_only + counts.right_only + counts.both = counts.total_rows
\* C1 amended: the three counts add up to total_rows less the rows whose
\* _merge value is none of the three tags; they add up to total_rows
\* exactly when every row carries one of the three tags.
C1_CountsPartitionTaggedRows ==
    pc = "lib_audited" =>
        LET other == {i \in 1..Len(merged.rows) : merged.rows[i][MERGE] \notin Tags}
        IN  /\ counts.total_rows = Len(merged.rows)
            /\ counts.left_only + counts.right_only + counts.both
                  = counts.total_rows - Cardinality(other)
            /\ counts.left_only >= 0 /\ counts.right_only >= 0 /\ counts.both >= 0
C1_Witness ==
    /\ pc = "lib_audited"
    /\ counts.total_rows = 3
    /\ counts.left_only + counts.right_only + counts.both = 2
    /\ \E i \in 1..Len(merged.rows) : merged.rows[i][MERGE] = NaN

\* C2 as stated: a call that raises for an unknown strategy leaves the
\* table it was given unmodified.
C2_FailedResolveLeavesTable ==
    (pc = "lib_failed" /\ err.type = "ValueError") =>
        /\ \E e \in Range(conflicts) :
              e.strategy \notin ValidStrategies /\ err = ValueError(e.base, e.strategy)
        /\ merged = df0

\* C3 as stated: a dict with a strategy other than left / right / coalesce
\* makes the call raise, whether or not the suffixed columns of that base
\* are in the table.
C3_UnknownStrategyRaises ==
    (pc \in {"lib_resolved", "lib_failed"}
       /\ \E e \in Range(conflicts) : e.strategy \notin ValidStrategies) =>
        /\ pc = "lib_failed"
        /\ \E e \in Range(conflicts) :
              e.strategy \notin ValidStrategies /\ err = ValueError(e.base, e.strategy)

\* C6 as stated: with a join key missing from the left or the right table
\* the call fails with a KeyError before any row is processed: no
\* de-duplication has removed a row, no table was merged.
C6_MissingKeyFailsBeforeRows ==
    (MergeCalled /\ (Missing(left0, on) # <<>> \/ Missing(right0, on) # <<>>)) =>
        /\ pc = "failed"
        /\ err.type = "KeyError"
        /\ merged = NoTable
        /\ left = left0 /\ right = right0

\* C7: for a base whose two suffixed columns are in the table, strategy
\* coalesce sets the reconciled cell of every row to the left-suffixed value
\* when that is not missing, else to the right-suffixed value; the cell is
\* missing only when both source cells are.
C7_CoalesceLeftElseRight ==
    pc = "lib_resolved" =>
        \A e \in Range(conflicts) :
            (e.strategy = "coalesce" /\ Resolvable(e)) =>
                /\ e.base \in Columns(merged)
                /\ Len(merged.rows) = Len(df0.rows)
                /\ \A i \in 1..Len(df0.rows) :
                      LET lv == df0.rows[i][e.base \o suffixes[1]]
                          rv == df0.rows[i][e.base \o suffixes[2]]
                          v == merged.rows[i][e.base]
                      IN  /\ v = (IF lv # NaN THEN lv ELSE rv)
                          /\ (v = NaN) = (lv = NaN /\ rv = NaN)
C7_Witness ==
    /\ pc = "lib_resolved"
    /\ Len(df0.rows) = 2
    /\ \E e \in Range(conflicts) :
          /\ e.strategy = "coalesce" /\ Resolvable(e)
          /\ df0.rows[1][e.base \o suffixes[1]] = NaN
          /\ df0.rows[1][e.base \o suffixes[2]] = "b"
          /\ merged.rows[1][e.base] = "b"
          /\ df0.rows[2][e.base \o suffixes[1]] = "a"
          /\ df0.rows[2][e.base \o suffixes[2]] = "b"
          /\ merged.rows[2][e.base] = "a"

\* C9 as stated: a call with valid strategies changes nothing but the
\* reconciled columns: the rows are as many, every column the table had is
\* still there, every suffixed source column and every column that is no
\* reconciled one has its values unchanged.
C9_ResolveOnlyAddsColumns ==
    pc = "lib_resolved" =>
        /\ Len(merged.rows) = Len(df0.rows)
        /\ Columns(df0) \subseteq Columns(merged)
        /\ \A c \in Columns(df0) :
              (c \in SourceCols \/ c \notin OutCols) =>
                  Column(merged, c) = Column(df0, c)

====
